---- MODULE Spec2Model ----
(***************************************************************************)
(* Newton-Raphson load flow (powerflow.solver.newton_raphson.LoadFlow)     *)
(* over the Bus / Branch / Network data model.                             *)
(*                                                                         *)
(* Per-unit quantities are integers.  An Optional[float] field is a set:   *)
(* {} is None and {v} is the value v.  Vectors are functions over the      *)
(* 0-based bus indices 0..n-1, as numpy arrays are; network.buses is a     *)
(* Python list, modelled as a sequence, so buses[k] of the code is         *)
(* buses[k + 1] here.                                                      *)
(*                                                                         *)
(* The complex floating-point arithmetic of the solver (S = V conj(Y V),   *)
(* the Jacobian entries and numpy.linalg.solve) is not representable: the  *)
(* injections computed in an iteration are any vector over PowerPairs, and *)
(* the linear solve either fails (singular matrix) or yields a step from   *)
(* DxValues.  Everything the code decides from those numbers (limit        *)
(* checks, index sets, mismatch test, updates, result) is modelled as      *)
(* written.                                                                *)
(***************************************************************************)
EXTENDS Integers, Sequences, FiniteSets, TLC

VARIABLES
    network,        \* the Network object passed to solve (buses, branches, shunts, base_mva)
    lf,             \* the LoadFlow object: self.tol, self.max_iter, self.verbose
    pc,             \* position in solve: start, loop, enforce, check, newton, raising, done, error
    it,             \* loop variable of "for it in range(self.max_iter)"; -1 before the loop
    slack, pv, pq,  \* locals of solve, lines 70-72
    Vm, Va,         \* working voltage magnitude / angle vectors
    P_spec, Q_spec, \* specified injections
    PV_active,      \* PV buses with |V| fixed
    PV_conv,        \* PV buses converted to PQ
    P, Q,           \* injections computed in the current iteration (Unbound before)
    p_rows, q_rows, \* row / column index lists of the current iteration
    result,         \* {} until solve returns, then {LoadFlowResult}
    err,            \* "" or the name of the exception that left solve
    updates,        \* number of Newton updates applied to Vm / Va (history)
    lastReimposed,  \* buses whose Vm the latest update overwrote with the setpoint (history)
    printed,        \* number of lines this solve has printed
    setsLog,        \* the <<PV_active, PV_conv>> left by each limit pass so far (history)
    args,           \* arguments of a Branch(...) construction under test
    branch,         \* {} until Branch.__init__ returns, then {the Branch object}
    Y,              \* the matrix build_ybus is filling (Unbound before the first call)
    pos,            \* position of build_ybus in the list it is looping over
    ybus,           \* the matrices returned by the build_ybus calls so far
    oracle,         \* the network equations, when a specification fixes them
    who,            \* the solve invocation that is running
    peer,           \* the suspended solve invocation, << >> when there is none
    ref             \* outcomes of the solves that ran alone, by verbose flag

vars == << network, lf, pc, it, slack, pv, pq, Vm, Va, P_spec, Q_spec,
           PV_active, PV_conv, P, Q, p_rows, q_rows, result, err,
           updates, lastReimposed, printed, setsLog, args, branch,
           Y, pos, ybus, oracle, who, peer, ref >>

\* What no step of a solve touches: the constructor and build_ybus variables
\* and the bookkeeping of the invocations.
idle == << args, branch, Y, pos, ybus, oracle, who, peer, ref >>

-----------------------------------------------------------------------------
(* Bounds and input sets *)

\* Largest iteration budget max_iter tried.
MaxIter == 2

\* self.max_iter values, including non-positive ones (no validation in __init__).
MaxIterValues == (-1) .. MaxIter

\* self.tol values: 0 is a non-positive tolerance, 1 a positive one.
TolValues == {0, 1}

\* An injection (P[k], Q[k]) computed for one bus in one iteration.
PowerPairs == { <<0, -1>>, <<0, 0>>, <<0, 1>>, <<0, 2>>, <<1, 0>> }

\* A step value produced by the linear solve.
DxValues == {-1, 1}

\* Largest index / parameter value passed to Branch(...).
MaxArg == 1

\* Values of i, j, r, x, b and tap passed to Branch(...).
ArgValues == (-1) .. MaxArg

\* Values of shift_deg passed to Branch(...).
ShiftValues == {-1, 0, 180, 360, 361}

-----------------------------------------------------------------------------
(* Data model *)

SLACK == "Slack"
PVT == "PV"
PQT == "PQ"

\* Bus.__init__: stores its arguments; the type must be one of the three.
BusInit(idx, type, V, theta_deg, Pb, Qb, Qmin, Qmax) ==
    [idx |-> idx, type |-> type, V |-> V, theta_deg |-> theta_deg,
     P |-> Pb, Q |-> Qb, Qmin |-> Qmin, Qmax |-> Qmax]

\* Network.__init__
NetworkInit(buses, branches, shunts, base_mva) ==
    [buses |-> buses, branches |-> branches, shunts |-> shunts, base_mva |-> base_mva]

\* Network.nbus
nbus(net) == Len(net.buses)

\* The b.idx of the buses of a given type, in list order.
RECURSIVE IdxOfType(_, _)
IdxOfType(buses, type) ==
    IF buses = << >> THEN << >>
    ELSE (IF Head(buses).type = type THEN << Head(buses).idx >> ELSE << >>)
         \o IdxOfType(Tail(buses), type)

\* Network.slack_index: next(b.idx for b in self.buses if b.type == SLACK).
\* {} stands for the StopIteration raised when the generator is empty.
slack_index(net) ==
    LET s == IdxOfType(net.buses, SLACK)
    IN  IF s = << >> THEN {} ELSE { Head(s) }

\* Network.pv_indices / pq_indices
pv_indices(net) == IdxOfType(net.buses, PVT)
pq_indices(net) == IdxOfType(net.buses, PQT)

\* LoadFlow.__init__: stores tol, max_iter and verbose as given.
LoadFlowInit(tol, max_iter, verbose) ==
    [tol |-> tol, max_iter |-> max_iter, verbose |-> verbose]

\* A constructor that checks only the lower end of the phase-shift range.
BranchInitNoUpperShift(i, j, r, x, b, tap, shift_deg) ==
    IF ~(i >= 0 /\ j >= 0 /\ i # j) THEN {}
    ELSE IF ~(r >= 0 /\ x >= 0) THEN {}
    ELSE IF ~(b >= 0) THEN {}
    ELSE IF ~(tap >= 0) THEN {}
    ELSE IF ~(shift_deg >= 0) THEN {}
    ELSE { [i |-> i, j |-> j, r |-> r, x |-> x, b |-> b,
            tap |-> tap, shift_deg |-> shift_deg] }

\* Branch.__init__: five assertions, then the fields are stored.  {} stands for
\* the AssertionError (no object is produced), {b} for the constructed Branch.
BranchInit(i, j, r, x, b, tap, shift_deg) ==
    IF ~(i >= 0 /\ j >= 0 /\ i # j) THEN {}
    ELSE IF ~(r >= 0 /\ x >= 0) THEN {}
    ELSE IF ~(b >= 0) THEN {}
    ELSE IF ~(tap >= 0) THEN {}
    ELSE IF ~(shift_deg >= 0 /\ shift_deg <= 360) THEN {}
    ELSE { [i |-> i, j |-> j, r |-> r, x |-> x, b |-> b,
            tap |-> tap, shift_deg |-> shift_deg] }

\* Shunt.__init__ (k is a non-negative integer in every use below).
ShuntInit(k, g, b) == [k |-> k, g |-> g, b |-> b]

-----------------------------------------------------------------------------
(* Helpers for vectors and index lists *)

\* The value that P and Q have before the first iteration binds them.
Unbound == [k \in {} |-> 0]

\* numpy.deg2rad on integers: d * pi / 180 with pi ~ 355/113, truncated.
Deg2Rad(d) == (d * 355) \div (113 * 180)

Range(s) == { s[p] : p \in DOMAIN s }

Abs(v) == IF v < 0 THEN -v ELSE v

\* sorted(S) for a finite set of integers.
RECURSIVE Sorted(_)
Sorted(S) ==
    IF S = {} THEN << >>
    ELSE LET m == CHOOSE v \in S : \A w \in S : v <= w
         IN  << m >> \o Sorted(S \ {m})

\* [k for k in range(n) if k != slack]
RECURSIVE RowsFrom(_, _, _)
RowsFrom(k, n, s) ==
    IF k >= n THEN << >>
    ELSE (IF k # s THEN << k >> ELSE << >>) \o RowsFrom(k + 1, n, s)

-----------------------------------------------------------------------------
(* Pure pieces of LoadFlow.solve *)

\* LoadFlowResult(Vm=..., Va=..., P=..., Q=..., iterations=..., converged=...)
LoadFlowResult(vm, va, pv_, qv, iterations, converged) ==
    [Vm |-> vm, Va |-> va, P |-> pv_, Q |-> qv,
     iterations |-> iterations, converged |-> converged]

\* "b.Qmin is not None and Q[k] < b.Qmin"
BelowMin(b, q) == \E m \in b.Qmin : q < m

\* "elif b.Qmax is not None and Q[k] > b.Qmax"
AboveMax(b, q) == ~BelowMin(b, q) /\ \E m \in b.Qmax : q > m

\* The bus object the limit pass and the re-imposition read for index k:
\* network.buses[k], the k-th element of the list.
BusAt(net, k) == net.buses[k + 1]

\* The indices the limit pass converts: those of PV_active whose bus object
\* violates a limit it defines.
Converted(net, active, qv) ==
    { k \in active : BelowMin(BusAt(net, k), qv[k]) \/ AboveMax(BusAt(net, k), qv[k]) }

\* The limit a converted index is pinned to.
PinnedLimit(b, q) ==
    IF BelowMin(b, q) THEN CHOOSE m \in b.Qmin : TRUE
                      ELSE CHOOSE m \in b.Qmax : TRUE

\* Q_spec after the pass.
PinnedQspec(net, active, qspec, qv) ==
    [k \in DOMAIN qspec |->
        IF k \in Converted(net, active, qv) THEN PinnedLimit(BusAt(net, k), qv[k])
                                            ELSE qspec[k]]

\* 'assert b.type == BusType.PV' fails for some converted index.
AssertFails(net, active, qv) ==
    \E k \in Converted(net, active, qv) : BusAt(net, k).type # PVT

\* q_rows = sorted(set(pq).union(PV_conv))
QRows(pqlist, conv) == Sorted(Range(pqlist) \cup conv)

\* mismatch = np.r_[P_spec[p_rows] - P[p_rows], Q_spec[q_rows] - Q[q_rows]]
Mismatch(pspec, qspec, pvec, qvec, prows, qrows) ==
    [r \in 1 .. Len(prows) |-> pspec[prows[r]] - pvec[prows[r]]]
    \o [r \in 1 .. Len(qrows) |-> qspec[qrows[r]] - qvec[qrows[r]]]

\* np.max(abs(mismatch)) for a non-empty vector
MaxAbs(m) == CHOOSE v \in { Abs(m[r]) : r \in DOMAIN m } :
                 \A r \in DOMAIN m : Abs(m[r]) <= v

\* A convergence test that sits inside the 'if self.verbose' block.
BelowTolWhenVerbose(m, tol) == lf.verbose /\ MaxAbs(m) < tol

\* "if np.max(abs(mismatch)) < self.tol"
BelowTol(m, tol) == MaxAbs(m) < tol

\* Reporting the number of the converging iteration counted from one.
IterationsPlusOne(i) == i + 1

\* "iterations=it" of the converged result, line 129.
ConvergedIterations(i) == i

\* Reporting the last loop index instead of the budget.
LastLoopIndex(self, i) == i

\* "iterations=self.max_iter" of the non-converged result, line 189.
ExhaustedIterations(self, i) == self.max_iter

\* 'if self.verbose: print(...)' executed n times.
PrintedLines(self, n) == IF self.verbose THEN n ELSE 0

\* A loop that runs its body for the indices 0 .. max_iter.
LoopContinuesInclusive(self, i) == i + 1 <= self.max_iter

\* "for it in range(self.max_iter)": after index i the loop has a next index.
LoopContinues(self, i) == i + 1 < self.max_iter

\* Va[theta_cols] += dx[:mP]  /  Vm[V_cols] += dx[mP:]
AddStep(vec, cols, d) ==
    [k \in DOMAIN vec |-> IF k \in Range(cols) THEN vec[k] + d ELSE vec[k]]

\* Re-imposing the setpoint on every PV bus, converted or not.
ReimposeAllPV(active, pvlist) == Range(pvlist)

\* The indices whose Vm is overwritten with the setpoint: "for k in PV_active".
ReimposeSet(active, pvlist) == active

\* "for k in PV_active: Vm[k] = network.buses[k].V"
Reimpose(net, vm, ks) ==
    [k \in DOMAIN vm |-> IF k \in ks THEN BusAt(net, k).V ELSE vm[k]]

-----------------------------------------------------------------------------
(* Inputs: the networks and solver configurations tried *)

\* Bus data by kind; the index is given by the bus's place in the network.
SlackKind  == [type |-> SLACK, V |-> 1, theta_deg |-> 0,  P |-> 0, Q |-> 0, Qmin |-> {},  Qmax |-> {}]
SlackGen   == [type |-> SLACK, V |-> 1, theta_deg |-> 0,  P |-> 0, Q |-> 0, Qmin |-> {0}, Qmax |-> {1}]
PVFree     == [type |-> PVT,   V |-> 2, theta_deg |-> 0,  P |-> 0, Q |-> 0, Qmin |-> {},  Qmax |-> {}]
PVLimited  == [type |-> PVT,   V |-> 2, theta_deg |-> 0,  P |-> 0, Q |-> 0, Qmin |-> {0}, Qmax |-> {1}]
PQLoad     == [type |-> PQT,   V |-> 1, theta_deg |-> 60, P |-> 0, Q |-> 1, Qmin |-> {},  Qmax |-> {}]

BusKinds == { SlackKind, SlackGen, PVFree, PVLimited, PQLoad }

\* The assignments of the indices 0..n-1 to the n list positions.
Orders(n) == { o \in [1 .. n -> 0 .. n - 1] : \A a, b \in 1 .. n : o[a] = o[b] => a = b }

MkBuses(kinds, order) ==
    [p \in 1 .. Len(kinds) |->
        BusInit(order[p], kinds[p].type, kinds[p].V, kinds[p].theta_deg,
                kinds[p].P, kinds[p].Q, kinds[p].Qmin, kinds[p].Qmax)]

\* A chain of lines 0-1, 1-2, ... and one shunt at bus 0.
RECURSIVE ChainFrom(_, _)
ChainFrom(a, n) ==
    IF a + 1 >= n THEN << >>
    ELSE << CHOOSE br \in BranchInit(a, a + 1, 0, 1, 0, 1, 0) : TRUE >> \o ChainFrom(a + 1, n)

MkNetwork(kinds, order) ==
    NetworkInit(MkBuses(kinds, order), ChainFrom(0, Len(kinds)),
                << ShuntInit(0, 0, 1) >>, 100)

\* Every network of one or two buses, and the slack / PV / PQ network of three.
KindLists ==
    { << a >> : a \in BusKinds } \cup { << a, b >> : a, b \in BusKinds }
    \cup { << SlackKind, PVLimited, PQLoad >> }

Networks == UNION { { MkNetwork(ks, o) : o \in Orders(Len(ks)) } : ks \in KindLists }

-----------------------------------------------------------------------------
(* LoadFlow.solve as a state machine *)

Buses == 0 .. nbus(network) - 1

\* The state in which solve(network) is about to be called on a constructed
\* LoadFlow object.
Init ==
    /\ network \in Networks
    /\ lf \in { LoadFlowInit(t, m, FALSE) : t \in TolValues, m \in MaxIterValues }
    /\ pc = "start"
    /\ it = -1
    /\ slack = -1
    /\ pv = << >>
    /\ pq = << >>
    /\ Vm = Unbound
    /\ Va = Unbound
    /\ P_spec = Unbound
    /\ Q_spec = Unbound
    /\ PV_active = {}
    /\ PV_conv = {}
    /\ P = Unbound
    /\ Q = Unbound
    /\ p_rows = << >>
    /\ q_rows = << >>
    /\ result = {}
    /\ err = ""
    /\ updates = 0
    /\ lastReimposed = {}
    /\ printed = 0
    /\ setsLog = << >>
    /\ Y = Unbound
    /\ pos = 0
    /\ ybus = << >>
    /\ oracle = << >>
    /\ who = "alone"
    /\ peer = << >>
    /\ ref = << >>
    /\ args = << >>
    /\ branch = {}

\* An exception leaves solve: nothing is returned, the locals are gone.
Raise(name) ==
    /\ pc' = "error"
    /\ err' = name
    /\ UNCHANGED << network, lf, it, slack, pv, pq, Vm, Va, P_spec, Q_spec,
                    PV_active, PV_conv, P, Q, p_rows, q_rows, result,
                    updates, lastReimposed, printed, setsLog, idle >>

\* Lines 66-70 on a network without a slack bus: slack_index raises StopIteration.
StartNoSlack ==
    /\ pc = "start"
    /\ slack_index(network) = {}
    /\ Raise("StopIteration")

\* Lines 66-82: the set-up of the working state.
Start ==
    /\ pc = "start"
    /\ slack_index(network) # {}
    /\ slack' = CHOOSE k \in slack_index(network) : TRUE
    /\ pv' = pv_indices(network)
    /\ pq' = pq_indices(network)
    /\ Vm' = [k \in Buses |-> BusAt(network, k).V]
    /\ Va' = [k \in Buses |-> Deg2Rad(BusAt(network, k).theta_deg)]
    /\ P_spec' = [k \in Buses |-> BusAt(network, k).P]
    /\ Q_spec' = [k \in Buses |->
                     IF BusAt(network, k).type = PQT THEN BusAt(network, k).Q ELSE 0]
    /\ PV_active' = Range(pv_indices(network))
    /\ PV_conv' = {}
    /\ pc' = "loop"
    /\ UNCHANGED << network, lf, it, P, Q, p_rows, q_rows, result, err,
                    updates, lastReimposed, printed, setsLog, idle >>

\* Lines 84-89: the loop takes its next index and computes the injections.
LoopEnter ==
    /\ pc = "loop"
    /\ LoopContinues(lf, it)
    /\ it' = it + 1
    /\ \E S \in [Buses -> PowerPairs] :
          /\ P' = [k \in Buses |-> S[k][1]]
          /\ Q' = [k \in Buses |-> S[k][2]]
    /\ pc' = "enforce"
    /\ UNCHANGED << network, lf, slack, pv, pq, Vm, Va, P_spec, Q_spec,
                    PV_active, PV_conv, p_rows, q_rows, result, err,
                    updates, lastReimposed, printed, setsLog, idle >>

\* Line 189 after at least one iteration: the non-converged result.
LoopExhausted ==
    /\ pc = "loop"
    /\ ~LoopContinues(lf, it)
    /\ P # Unbound
    /\ result' = { LoadFlowResult(Vm, Va, P, Q, ExhaustedIterations(lf, it), FALSE) }
    /\ pc' = "done"
    /\ UNCHANGED << network, lf, it, slack, pv, pq, Vm, Va, P_spec, Q_spec,
                    PV_active, PV_conv, P, Q, p_rows, q_rows, err,
                    updates, lastReimposed, printed, setsLog, idle >>

\* Line 189 when the loop body never ran: P and Q are unbound locals.
LoopNeverRan ==
    /\ pc = "loop"
    /\ ~LoopContinues(lf, it)
    /\ P = Unbound
    /\ Raise("UnboundLocalError")

\* Lines 92-109 with the network the pass leaves behind; a verbose solve
\* prints one line per conversion (lines 100-101, 108-109).
EnforceLeaving(net) ==
    /\ pc = "enforce"
    /\ ~AssertFails(network, PV_active, Q)
    /\ PV_active' = PV_active \ Converted(network, PV_active, Q)
    /\ PV_conv' = PV_conv \cup Converted(network, PV_active, Q)
    /\ Q_spec' = PinnedQspec(network, PV_active, Q_spec, Q)
    /\ network' = net
    /\ printed' = printed + PrintedLines(lf, Cardinality(Converted(network, PV_active, Q)))
    /\ setsLog' = Append(setsLog, << PV_active', PV_conv' >>)
    /\ pc' = "check"
    /\ UNCHANGED << lf, it, slack, pv, pq, Vm, Va, P_spec, P, Q, p_rows,
                    q_rows, result, err, updates, lastReimposed, idle >>

\* The slip of recording the conversion in the Bus objects.
EnforceWritingBuses ==
    EnforceLeaving(
        [network EXCEPT !.buses =
            [p \in DOMAIN network.buses |->
                IF p - 1 \in Converted(network, PV_active, Q)
                THEN [network.buses[p] EXCEPT !.type = PQT]
                ELSE network.buses[p]]])

\* Lines 92-109: the limit-enforcement pass; the Bus objects are only read.
Enforce == EnforceLeaving(network)

\* Lines 99 / 107: the assertion on the bus object's type fails.
\* A verbose solve has printed a line for each conversion the loop made before
\* the failing one; the loop goes through list(PV_active) in the set's order.
EnforceAssert ==
    /\ pc = "enforce"
    /\ AssertFails(network, PV_active, Q)
    /\ \E c \in 0 .. Cardinality({ k \in Converted(network, PV_active, Q) :
                                      BusAt(network, k).type = PVT }) :
          printed' = printed + PrintedLines(lf, c)
    /\ pc' = "error"
    /\ err' = "AssertionError"
    /\ UNCHANGED << network, lf, it, slack, pv, pq, Vm, Va, P_spec, Q_spec,
                    PV_active, PV_conv, P, Q, p_rows, q_rows, result,
                    updates, lastReimposed, setsLog, idle >>

\* Lines 111-116 for the current sets.
PRowsNow == RowsFrom(0, nbus(network), slack)
QRowsNow == QRows(pq, PV_conv)
MismatchNow == Mismatch(P_spec, Q_spec, P, Q, PRowsNow, QRowsNow)

\* Line 121 on an empty mismatch vector (a network of the slack bus alone):
\* np.max of a zero-size array raises ValueError.
CheckEmpty ==
    /\ pc = "check"
    /\ MismatchNow = << >>
    /\ Raise("ValueError")

\* Lines 111-131: the mismatch is below tol, the result is returned; a verbose
\* solve prints the mismatch line and the convergence line (lines 118-123).
Converged ==
    /\ pc = "check"
    /\ MismatchNow # << >>
    /\ BelowTol(MismatchNow, lf.tol)
    /\ p_rows' = PRowsNow
    /\ q_rows' = QRowsNow
    /\ result' = { LoadFlowResult(Vm, Va, P, Q, ConvergedIterations(it), TRUE) }
    /\ printed' = printed + PrintedLines(lf, 2)
    /\ pc' = "done"
    /\ UNCHANGED << network, lf, it, slack, pv, pq, Vm, Va, P_spec, Q_spec,
                    PV_active, PV_conv, P, Q, err, updates, lastReimposed,
                    setsLog, idle >>

\* Lines 111-121: the mismatch is not below tol, the iteration goes on; a
\* verbose solve prints the mismatch line (lines 118-119).
NotConverged ==
    /\ pc = "check"
    /\ MismatchNow # << >>
    /\ ~BelowTol(MismatchNow, lf.tol)
    /\ p_rows' = PRowsNow
    /\ q_rows' = QRowsNow
    /\ printed' = printed + PrintedLines(lf, 1)
    /\ pc' = "newton"
    /\ UNCHANGED << network, lf, it, slack, pv, pq, Vm, Va, P_spec, Q_spec,
                    PV_active, PV_conv, P, Q, result, err, updates,
                    lastReimposed, setsLog, idle >>

\* Line 180: np.linalg.solve raises LinAlgError (singular Jacobian).
LinearSolveFails ==
    /\ pc = "newton"
    /\ pc' = "raising"
    /\ UNCHANGED << network, lf, it, slack, pv, pq, Vm, Va, P_spec, Q_spec,
                    PV_active, PV_conv, P, Q, p_rows, q_rows, result, err,
                    updates, lastReimposed, printed, setsLog, idle >>

\* A handler that swallows the failure and goes on to the next iteration.
RetryAfterLinAlgError ==
    /\ pc = "raising"
    /\ pc' = "loop"
    /\ UNCHANGED << network, lf, it, slack, pv, pq, Vm, Va, P_spec, Q_spec,
                    PV_active, PV_conv, P, Q, p_rows, q_rows, result, err,
                    updates, lastReimposed, printed, setsLog, idle >>

\* Lines 179-183: no handler encloses line 180, the LinAlgError leaves solve.
PropagateLinAlgError ==
    /\ pc = "raising"
    /\ Raise("LinAlgError")

\* Lines 180-187: the linear solve succeeds; the step is applied to the
\* unknowns and the setpoint is re-imposed on the active PV buses.
Update ==
    /\ pc = "newton"
    /\ \E d \in DxValues :
          /\ Va' = AddStep(Va, p_rows, d)
          /\ Vm' = Reimpose(network, AddStep(Vm, q_rows, d), ReimposeSet(PV_active, pv))
    /\ lastReimposed' = ReimposeSet(PV_active, pv)
    /\ updates' = updates + 1
    /\ pc' = "loop"
    /\ UNCHANGED << network, lf, it, slack, pv, pq, P_spec, Q_spec, PV_active,
                    PV_conv, P, Q, p_rows, q_rows, result, err, printed, setsLog, idle >>

Next ==
    \/ StartNoSlack
    \/ Start
    \/ LoopEnter
    \/ LoopExhausted
    \/ LoopNeverRan
    \/ Enforce
    \/ EnforceAssert
    \/ CheckEmpty
    \/ Converged
    \/ NotConverged
    \/ LinearSolveFails
    \/ PropagateLinAlgError
    \/ Update

Spec == Init /\ [][Next]_vars

-----------------------------------------------------------------------------
(* Claims *)

\* The Bus object whose idx field is k.
BusOfIdx(net, k) == CHOOSE b \in Range(net.buses) : b.idx = k

\* C1: the PV-to-PQ conversion is one-way within a solve.  A bus in PV_conv
\* stays in PV_conv and out of PV_active in every later step, it is among the
\* magnitude unknowns (q_rows) whenever the Jacobian is built, and no Newton
\* update overwrites its Vm with the setpoint, whatever Q is computed later.
C1_OneWayConversion ==
    [][\A k \in PV_conv :
          /\ k \in PV_conv'
          /\ k \notin PV_active'
          /\ (pc' = "newton" => k \in Range(q_rows'))
          /\ (updates' # updates => k \notin lastReimposed')]_vars

\* C1 witness: a bus converted in an earlier iteration (the latest update did
\* not re-impose its setpoint) whose Q, computed in a later iteration, is back
\* inside its limits, and which is still converted at the convergence check.
C1_Witness ==
    /\ pc = "check"
    /\ updates >= 1
    /\ \E k \in PV_conv :
          /\ k \notin lastReimposed
          /\ k \notin PV_active
          /\ \A m \in BusOfIdx(network, k).Qmin : Q[k] >= m
          /\ \A m \in BusOfIdx(network, k).Qmax : Q[k] <= m
          /\ BusOfIdx(network, k).Qmin # {}

\* C2: no step of solve changes the Network: buses (every field), branches,
\* shunts and base_mva keep their values through every outcome.
C2_NetworkUnchanged == [][network' = network]_vars

\* C2 witness: a solve that has returned after converting a PV bus, whose Bus
\* object still has type PV.
C2_Witness ==
    /\ pc = "done"
    /\ \E k \in PV_conv : BusOfIdx(network, k).type = PVT /\ BusAt(network, k).type = PVT

\* The limits of the bus whose idx is k, as the claims speak of them.
QBelowMin(k) == \E m \in BusOfIdx(network, k).Qmin : Q[k] < m
QAboveMax(k) == \E m \in BusOfIdx(network, k).Qmax : Q[k] > m

\* The bus list holds the bus with idx p at list position p.
IdxOrdered(net) == \A p \in DOMAIN net.buses : net.buses[p].idx = p - 1

\* What C3 says of one limit-enforcement pass, for the limits lim_lo(k),
\* lim_hi(k) of bus k.
PassAsClaimed(below(_), above(_), lo(_), hi(_)) ==
    \A k \in Buses :
        /\ (k \in PV_active /\ (below(k) \/ above(k))) =>
              /\ k \notin PV_active'
              /\ k \in PV_conv'
              /\ (below(k) => Q_spec'[k] \in lo(k))
              /\ (~below(k) => Q_spec'[k] \in hi(k))
        /\ (k \in PV_active /\ ~(below(k) \/ above(k))) =>
              /\ k \in PV_active'
              /\ k \notin PV_conv'
              /\ Q_spec'[k] = Q_spec[k]
        /\ (k \notin PV_active) =>
              /\ k \notin PV_active'
              /\ (k \in PV_conv' <=> k \in PV_conv)
              /\ Q_spec'[k] = Q_spec[k]

IdxQmin(k) == BusOfIdx(network, k).Qmin
IdxQmax(k) == BusOfIdx(network, k).Qmax

\* C3: in the limit-enforcement pass a bus k of PV_active is converted iff
\* its Qmin is defined and Q[k] < Qmin, or its Qmax is defined and
\* Q[k] > Qmax; a converted bus leaves PV_active, joins PV_conv and has
\* Q_spec[k] pinned to the violated limit; every other bus (active PV inside
\* its limits or without limits, slack, PQ, already converted) keeps its set
\* membership and its Q_spec[k].  The limits are those of the bus with idx k.
C3_LimitPass ==
    [][pc = "enforce" => PassAsClaimed(QBelowMin, QAboveMax, IdxQmin, IdxQmax)]_vars

\* C3 on bus lists ordered by idx, where network.buses[k] is the bus with
\* idx k: there the pass is as C3 says.
C3_LimitPassOrdered ==
    [][(pc = "enforce" /\ IdxOrdered(network)) =>
          PassAsClaimed(QBelowMin, QAboveMax, IdxQmin, IdxQmax)]_vars

\* All iterations of the budget ran, each with a failed convergence check and
\* a successful linear solve, and solve has ended.
BudgetSpent ==
    /\ pc \in {"done", "error"}
    /\ slack # -1
    /\ updates = lf.max_iter

NonConvergedReturn ==
    /\ err = ""
    /\ pc = "done"
    /\ \E r \in result : ~r.converged /\ r.iterations = lf.max_iter
    /\ Cardinality(result) = 1

\* C4 as stated: whenever the mismatch is not below tol in any of the
\* max_iter iterations and every linear solve succeeds, solve returns a record
\* with converged = false and iterations = max_iter and raises nothing.
C4_NonConvergenceAsStated == BudgetSpent => NonConvergedReturn

\* C4 amended: the same for max_iter >= 1.
C4_NonConvergence == (BudgetSpent /\ lf.max_iter >= 1) => NonConvergedReturn

\* C4 witness: a solve that used up a budget of two iterations and returned
\* the non-converged record.
C4_Witness ==
    /\ pc = "done"
    /\ lf.max_iter = MaxIter
    /\ updates = MaxIter
    /\ \E r \in result : ~r.converged /\ r.iterations = MaxIter

\* C5: a converged result reports the zero-based index of the iteration whose
\* check succeeded, which is the number of Newton updates applied before it
\* (0 when the initial state converges), never that index plus one.
C5_ConvergedIterations ==
    \A r \in result :
        r.converged => /\ r.iterations = it
                       /\ r.iterations = updates
                       /\ r.iterations # it + 1

\* C5 witness: convergence detected after exactly one Newton update.
C5_Witness ==
    /\ pc = "done"
    /\ updates = 1
    /\ \E r \in result : r.converged /\ r.iterations = 1

\* C6: when the linear solve fails, the error leaves solve in that iteration:
\* the next step ends the call with LinAlgError, without a result, without a
\* change of the iterate, and nothing runs after a raised error.
C6_SingularPropagates ==
    [][/\ pc = "raising" =>
             /\ pc' = "error"
             /\ err' = "LinAlgError"
             /\ result' = {}
             /\ it' = it
             /\ updates' = updates
       /\ pc # "error"]_vars

\* C6 witness: the linear solve failed in the second iteration and solve
\* ended with LinAlgError and no result.
C6_Witness ==
    /\ pc = "error"
    /\ err = "LinAlgError"
    /\ it = 1
    /\ updates = 1
    /\ result = {}

\* The number of buses of type Slack.
NumSlack(net) == Cardinality({ p \in DOMAIN net.buses : net.buses[p].type = SLACK })

\* C7: slack_index fails for a network with no Slack bus and for a network
\* with two or more Slack buses, and returns an index only when exactly one
\* Slack bus exists; a solve on such a network ends at the slack lookup.
C7_SlackLookup ==
    /\ slack_index(network) # {} <=> NumSlack(network) = 1
    /\ (pc # "start" /\ NumSlack(network) # 1) => (pc = "error" /\ err = "StopIteration")

\* C8: a solver with tol <= 0 or max_iter <= 0 never enters the iteration
\* loop and never returns a result record.
C8_InvalidConfigRejected ==
    (lf.tol <= 0 \/ lf.max_iter <= 0) =>
        /\ it = -1
        /\ pc \notin {"enforce", "check", "newton", "raising", "done"}
        /\ result = {}

\* C10: in a returned result the vectors have length nbus and entry k belongs
\* to the bus whose idx is k: with no update applied Vm[k] and Va[k] are that
\* bus's V and angle, P_spec[k] is its P, Q_spec[k] is its Q for a PQ bus,
\* the slack / PV / PQ roles are those of its type, the setpoint held for an
\* active PV bus is its V, and a converted bus is pinned to one of its limits.
C10_IndexedByBusIdx ==
    \A r \in result :
        /\ DOMAIN r.Vm = Buses /\ DOMAIN r.Va = Buses
        /\ DOMAIN r.P = Buses /\ DOMAIN r.Q = Buses
        /\ \A k \in Buses :
              LET b == BusOfIdx(network, k)
              IN  /\ updates = 0 => (r.Vm[k] = b.V /\ r.Va[k] = Deg2Rad(b.theta_deg))
                  /\ P_spec[k] = b.P
                  /\ (b.type = PQT => Q_spec[k] = b.Q)
                  /\ (k = slack => b.type = SLACK)
                  /\ (k \in Range(pv) <=> b.type = PVT)
                  /\ (k \in Range(pq) <=> b.type = PQT)
                  /\ (k \in PV_active => r.Vm[k] = b.V)
                  /\ (k \in PV_conv => Q_spec[k] \in b.Qmin \cup b.Qmax)

\* C10 on bus lists ordered by idx: there every entry k is that of the bus
\* with idx k.
C10_IndexedOrdered == IdxOrdered(network) => C10_IndexedByBusIdx

-----------------------------------------------------------------------------
(* Branch construction on its own *)

\* Branch(i, j, r, x, b, tap, shift_deg) is about to be called.
InitBranch ==
    /\ args \in [i : ArgValues, j : ArgValues, r : ArgValues, x : ArgValues,
                 b : ArgValues, tap : ArgValues, shift_deg : ShiftValues]
    /\ branch = {}
    /\ pc = "construct"
    /\ network = NetworkInit(<< >>, << >>, << >>, 100)
    /\ lf = LoadFlowInit(1, 1, FALSE)
    /\ it = -1
    /\ slack = -1
    /\ pv = << >>
    /\ pq = << >>
    /\ Vm = Unbound
    /\ Va = Unbound
    /\ P_spec = Unbound
    /\ Q_spec = Unbound
    /\ PV_active = {}
    /\ PV_conv = {}
    /\ P = Unbound
    /\ Q = Unbound
    /\ p_rows = << >>
    /\ q_rows = << >>
    /\ result = {}
    /\ err = ""
    /\ updates = 0
    /\ lastReimposed = {}
    /\ printed = 0
    /\ setsLog = << >>
    /\ Y = Unbound
    /\ pos = 0
    /\ ybus = << >>
    /\ oracle = << >>
    /\ who = "alone"
    /\ peer = << >>
    /\ ref = << >>

\* Branch.__init__ runs: the object is produced or AssertionError is raised.
Construct ==
    /\ pc = "construct"
    /\ branch' = BranchInit(args.i, args.j, args.r, args.x, args.b, args.tap, args.shift_deg)
    /\ pc' = IF branch' = {} THEN "error" ELSE "done"
    /\ err' = IF branch' = {} THEN "AssertionError" ELSE ""
    /\ UNCHANGED << network, lf, it, slack, pv, pq, Vm, Va, P_spec, Q_spec,
                    PV_active, PV_conv, P, Q, p_rows, q_rows, result,
                    updates, lastReimposed, printed, setsLog, args,
                    Y, pos, ybus, oracle, who, peer, ref >>

NextBranch == Construct

SpecBranch == InitBranch /\ [][NextBranch]_vars

\* The argument tuples C9 lists as invalid.
InvalidArgs(a) ==
    \/ a.i = a.j \/ a.i < 0 \/ a.j < 0
    \/ a.r < 0 \/ a.x < 0 \/ a.b < 0 \/ a.tap < 0
    \/ a.shift_deg < 0 \/ a.shift_deg > 360

-----------------------------------------------------------------------------
(* Claims on converted and active PV buses *)

\* The bus with idx k is a PV bus whose computed Q[k] violates a limit it
\* defines.
OwnLimitViolated(k) ==
    /\ BusOfIdx(network, k).type = PVT
    /\ (QBelowMin(k) \/ QAboveMax(k))

\* What C11 says, step by step and of a converged result: a PV bus whose Q
\* violates its own limit at a limit pass is converted by that pass if it was
\* not already; a conversion starts in PV_active and pins Q_spec[k] to a limit
\* of the bus; afterwards k stays converted, Q_spec[k] keeps the pinned value
\* and no update re-imposes the setpoint; the converged result has
\* |Q[k] - Q_spec[k]| < tol.
ConvertedOnceAsClaimed ==
    /\ (pc = "enforce" /\ pc' # "enforce") =>
          \A k \in Buses : OwnLimitViolated(k) => k \in PV_conv'
    /\ \A k \in Buses :
          /\ (k \notin PV_conv /\ k \in PV_conv') =>
                /\ k \in PV_active /\ k \notin PV_active'
                /\ Q_spec'[k] \in IdxQmin(k) \cup IdxQmax(k)
          /\ k \in PV_conv =>
                /\ k \in PV_conv' /\ k \notin PV_active'
                /\ Q_spec'[k] = Q_spec[k]
                /\ (updates' # updates => k \notin lastReimposed')
    /\ \A r \in result' :
          r.converged => \A k \in PV_conv' : Abs(r.Q[k] - Q_spec'[k]) < lf.tol

\* C11: a PV bus whose reactive output violates a defined limit during a
\* solve is converted exactly once, its Q_spec is pinned to the limit at the
\* conversion and not changed afterwards, its Vm is not overwritten with the
\* setpoint after the conversion, and in a converged result its Q differs from
\* the pinned limit by less than tol.
C11_ConvertedOnce == [][ConvertedOnceAsClaimed]_vars

\* C11 on bus lists ordered by idx.
C11_ConvertedOnceOrdered == [][IdxOrdered(network) => ConvertedOnceAsClaimed]_vars

\* A converged result in which a bus converted in an earlier iteration sits at
\* its pinned limit with a magnitude that the updates have moved.
C11_OrderedWitness ==
    /\ IdxOrdered(network)
    /\ pc = "done"
    /\ \E r \in result : r.converged /\ r.iterations >= 1
          /\ \E k \in PV_conv : k \notin lastReimposed /\ r.Q[k] = Q_spec[k]

\* C16: at the start of every iteration and in every returned result, Vm[k]
\* is the specified voltage V of the bus k for every k in PV_active.
C16_ActiveSetpoint ==
    /\ pc \in {"loop", "enforce"} =>
          \A k \in PV_active : Vm[k] = BusOfIdx(network, k).V
    /\ \A r \in result : \A k \in PV_active : r.Vm[k] = BusOfIdx(network, k).V

\* C16 on bus lists ordered by idx.
C16_ActiveSetpointOrdered == IdxOrdered(network) => C16_ActiveSetpoint

\* C18: in a converged result every bus still in PV_active has its returned
\* Q[k] inside the limits it defines.
C18_ActiveWithinLimits ==
    \A r \in result :
        r.converged =>
            \A k \in PV_active :
                /\ \A m \in IdxQmin(k) : r.Q[k] >= m
                /\ \A m \in IdxQmax(k) : r.Q[k] <= m

\* C18 on bus lists ordered by idx.
C18_ActiveWithinLimitsOrdered == IdxOrdered(network) => C18_ActiveWithinLimits

-----------------------------------------------------------------------------
(* Termination within the iteration cap *)

Terminal == pc \in {"done", "error"}

\* Position of the solve in its run: every step moves it forward.
PcRank ==
    CASE pc = "start"   -> 0
      [] pc = "loop"    -> 1
      [] pc = "enforce" -> 2
      [] pc = "check"   -> 3
      [] pc = "newton"  -> 4
      [] pc = "raising" -> 5
      [] OTHER          -> 6

Progress == 5 * updates + PcRank

CappedSolve == NumSlack(network) = 1 /\ lf.max_iter >= 1

\* The iteration index stays below max_iter (so at most max_iter convergence
\* checks are made), at most max_iter updates are applied, a solve that has
\* not ended can take a step, and a solve that has ended holds exactly one of a
\* converged result, a non-converged result and an error.
WithinCap ==
    /\ it < lf.max_iter
    /\ updates <= lf.max_iter
    /\ Progress <= 5 * lf.max_iter + 6
    /\ ~Terminal => (result = {} /\ err = "" /\ ENABLED Next)
    /\ pc = "done" => (Cardinality(result) = 1 /\ err = "")
    /\ pc = "error" => (result = {} /\ err # "")

\* C17: for a network with exactly one slack bus and max_iter >= 1, solve
\* terminates after at most max_iter iterations, in exactly one of a converged
\* result, a non-converged result and a propagated error.
C17_BoundedTermination ==
    /\ [](CappedSolve => WithinCap)
    /\ [][CappedSolve => Progress' > Progress]_vars

\* A solve that used the whole budget: max_iter updates, then the
\* non-converged result.
C17_Witness ==
    /\ CappedSolve
    /\ pc = "done"
    /\ lf.max_iter = MaxIter
    /\ updates = lf.max_iter
    /\ \E r \in result : ~r.converged

-----------------------------------------------------------------------------
(* build_ybus on its own *)

\* Complex numbers are exact: (re + j im) / den with den > 0, in lowest terms.
\* den = 0 stands for a value with an infinite or NaN component, which numpy
\* produces (with a warning, not an exception) when it divides by zero.
RECURSIVE GCD(_, _)
GCD(a, b) == IF b = 0 THEN a ELSE GCD(b, a % b)

NonFinite == [re |-> 0, im |-> 0, den |-> 0]

Cx(re, im, den) ==
    IF den = 0 THEN NonFinite
    ELSE LET sgn == IF den < 0 THEN -1 ELSE 1
             g == GCD(GCD(Abs(re), Abs(im)), Abs(den))
         IN  [re |-> (sgn * re) \div g, im |-> (sgn * im) \div g, den |-> Abs(den) \div g]

CZero == Cx(0, 0, 1)

IsZero(c) == c.den # 0 /\ c.re = 0 /\ c.im = 0

CAdd(a, c) == Cx(a.re * c.den + c.re * a.den, a.im * c.den + c.im * a.den, a.den * c.den)

CNeg(a) == Cx(-a.re, -a.im, a.den)

CConj(a) == Cx(a.re, -a.im, a.den)

CMul(a, c) == Cx(a.re * c.re - a.im * c.im, a.re * c.im + a.im * c.re, a.den * c.den)

\* numpy division: a zero divisor gives a non-finite value.
CDiv(a, c) ==
    IF a.den = 0 \/ c.den = 0 \/ IsZero(c) THEN NonFinite
    ELSE CMul(a, Cx(c.re * c.den, -(c.im * c.den), c.re * c.re + c.im * c.im))

\* abs(t) ** 2, a real number.
AbsSquared(c) == Cx(c.re * c.re + c.im * c.im, 0, c.den * c.den)

\* np.exp(1j * np.deg2rad(d)) for a multiple of 90 degrees.
UnitPhasor(d) ==
    CASE d % 360 = 0   -> Cx(1, 0, 1)
      [] d % 360 = 90  -> Cx(0, 1, 1)
      [] d % 360 = 180 -> Cx(-1, 0, 1)
      [] OTHER         -> Cx(0, -1, 1)

\* Line 36: z = complex(br.r, br.x)
BranchZ(br) == Cx(br.r, br.x, 1)

\* Line 37: y = 1 / z  (for z # 0)
BranchY(br) == CDiv(Cx(1, 0, 1), BranchZ(br))

\* Line 38: ysh = 1j * br.b / 2.0
BranchYsh(br) == Cx(0, br.b, 2)

\* Line 39: t = br.tap * np.exp(1j * np.deg2rad(br.shift_deg))
BranchT(br) == CMul(Cx(br.tap, 0, 1), UnitPhasor(br.shift_deg))

\* Line 33: Y = np.zeros((n, n), dtype=complex)
ZeroMatrixKept(n) ==
    IF Y = Unbound THEN [e \in (0 .. n - 1) \X (0 .. n - 1) |-> CZero] ELSE Y

ZeroMatrix(n) == [e \in (0 .. n - 1) \X (0 .. n - 1) |-> CZero]

\* Y[a, c] += v
AddAt(m, a, c, v) == [m EXCEPT ![<< a, c >>] = CAdd(m[<< a, c >>], v)]

\* A stamp that leaves out the entry below the diagonal.
StampOneSided(m, br) ==
    LET y == BranchY(br)
        ysh == BranchYsh(br)
        t == BranchT(br)
        m1 == AddAt(m, br.i, br.i, CDiv(CAdd(y, ysh), AbsSquared(t)))
        m2 == AddAt(m1, br.j, br.j, CAdd(y, ysh))
    IN  AddAt(m2, br.i, br.j, CDiv(CNeg(y), CConj(t)))

\* Lines 42-45: the four entries one branch adds to.
Stamp(m, br) ==
    LET y == BranchY(br)
        ysh == BranchYsh(br)
        t == BranchT(br)
        m1 == AddAt(m, br.i, br.i, CDiv(CAdd(y, ysh), AbsSquared(t)))
        m2 == AddAt(m1, br.j, br.j, CAdd(y, ysh))
        m3 == AddAt(m2, br.i, br.j, CDiv(CNeg(y), CConj(t)))
    IN  AddAt(m3, br.j, br.i, CDiv(CNeg(y), t))

\* Line 48: Y[sh.k, sh.k] += complex(sh.g, sh.b)
StampShunt(m, sh) == AddAt(m, sh.k, sh.k, Cx(sh.g, sh.b, 1))

\* Inputs: two-bus networks whose branches and shunts may also name a bus 2
\* that the network does not have; r = x = 0 and tap = 0 pass the constructor.
YbusEnds == { << 0, 1 >>, << 1, 0 >>, << 0, 2 >> }
YbusImpedances == { << 0, 0 >>, << 0, 1 >>, << 1, 1 >>, << 1, 2 >> }
YbusCharging == { 0, 1 }
YbusTaps == { 0, 1, 2 }
YbusShifts == { 0, 90 }

YbusBranches ==
    UNION { BranchInit(e[1], e[2], z[1], z[2], b, tp, sd) :
              e \in YbusEnds, z \in YbusImpedances, b \in YbusCharging,
              tp \in YbusTaps, sd \in YbusShifts }

Unity(br) == br.tap = 1 /\ br.shift_deg = 0

YbusBranchLists ==
    { << >> } \cup { << br >> : br \in YbusBranches }
    \cup { << b1, b2 >> : b1, b2 \in { br \in YbusBranches : Unity(br) } }

YbusShuntLists ==
    { << >>, << ShuntInit(0, 1, 1) >>, << ShuntInit(1, 0, 1), ShuntInit(1, 1, 0) >>,
      << ShuntInit(2, 1, 0) >> }

YbusNetworks ==
    { NetworkInit(MkBuses(<< SlackKind, PQLoad >>, << 0, 1 >>), brs, shs, 100) :
        brs \in YbusBranchLists, shs \in YbusShuntLists }

\* build_ybus(network) is about to be called for the first time.
InitYbus ==
    /\ network \in YbusNetworks
    /\ pc = "ybus_idle"
    /\ Y = Unbound
    /\ pos = 0
    /\ ybus = << >>
    /\ err = ""
    /\ lf = LoadFlowInit(1, 1, FALSE)
    /\ it = -1
    /\ slack = -1
    /\ pv = << >>
    /\ pq = << >>
    /\ Vm = Unbound
    /\ Va = Unbound
    /\ P_spec = Unbound
    /\ Q_spec = Unbound
    /\ PV_active = {}
    /\ PV_conv = {}
    /\ P = Unbound
    /\ Q = Unbound
    /\ p_rows = << >>
    /\ q_rows = << >>
    /\ result = {}
    /\ updates = 0
    /\ lastReimposed = {}
    /\ printed = 0
    /\ setsLog = << >>
    /\ args = << >>
    /\ branch = {}
    /\ oracle = << >>
    /\ who = "alone"
    /\ peer = << >>
    /\ ref = << >>

\* What build_ybus has no access to.
notYbus == << lf, it, slack, pv, pq, Vm, Va, P_spec, Q_spec, PV_active, PV_conv,
              P, Q, p_rows, q_rows, result, updates, lastReimposed, printed,
              setsLog, args, branch, oracle, who, peer, ref >>

InRange(k) == k < nbus(network)

\* Lines 32-33: a call starts on a matrix of zeros (two calls are made).
YbusCall ==
    /\ pc = "ybus_idle"
    /\ Len(ybus) < 2
    /\ Y' = ZeroMatrix(nbus(network))
    /\ pos' = 1
    /\ pc' = "ybus_branches"
    /\ UNCHANGED << network, ybus, err, notYbus >>

\* An exception leaves build_ybus.
YbusRaise(name) ==
    /\ pc' = "error"
    /\ err' = name
    /\ UNCHANGED << network, Y, pos, ybus, notYbus >>

\* Lines 35-45 for the branch at pos.
StampBranch ==
    /\ pc = "ybus_branches"
    /\ pos <= Len(network.branches)
    /\ ~IsZero(BranchZ(network.branches[pos]))
    /\ InRange(network.branches[pos].i) /\ InRange(network.branches[pos].j)
    /\ Y' = Stamp(Y, network.branches[pos])
    /\ pos' = pos + 1
    /\ UNCHANGED << network, pc, ybus, err, notYbus >>

\* Line 37 with r = x = 0: the Python complex division raises.
BranchZeroDivision ==
    /\ pc = "ybus_branches"
    /\ pos <= Len(network.branches)
    /\ IsZero(BranchZ(network.branches[pos]))
    /\ YbusRaise("ZeroDivisionError")

\* Lines 42-45 with an end that is not a row of Y.
BranchIndexError ==
    /\ pc = "ybus_branches"
    /\ pos <= Len(network.branches)
    /\ ~IsZero(BranchZ(network.branches[pos]))
    /\ ~(InRange(network.branches[pos].i) /\ InRange(network.branches[pos].j))
    /\ YbusRaise("IndexError")

\* Line 47: the branch loop is over, the shunt loop starts.
BranchesDone ==
    /\ pc = "ybus_branches"
    /\ pos > Len(network.branches)
    /\ pos' = 1
    /\ pc' = "ybus_shunts"
    /\ UNCHANGED << network, Y, ybus, err, notYbus >>

\* Lines 47-48 for the shunt at pos.
AddShunt ==
    /\ pc = "ybus_shunts"
    /\ pos <= Len(network.shunts)
    /\ InRange(network.shunts[pos].k)
    /\ Y' = StampShunt(Y, network.shunts[pos])
    /\ pos' = pos + 1
    /\ UNCHANGED << network, pc, ybus, err, notYbus >>

\* Line 48 with a bus index that is not a row of Y.
ShuntIndexError ==
    /\ pc = "ybus_shunts"
    /\ pos <= Len(network.shunts)
    /\ ~InRange(network.shunts[pos].k)
    /\ YbusRaise("IndexError")

\* Line 50: return Y.
YbusReturn ==
    /\ pc = "ybus_shunts"
    /\ pos > Len(network.shunts)
    /\ ybus' = Append(ybus, Y)
    /\ pc' = "ybus_idle"
    /\ UNCHANGED << network, Y, pos, err, notYbus >>

NextYbus ==
    \/ YbusCall
    \/ StampBranch
    \/ BranchZeroDivision
    \/ BranchIndexError
    \/ BranchesDone
    \/ AddShunt
    \/ ShuntIndexError
    \/ YbusReturn

SpecYbus == InitYbus /\ [][NextYbus]_vars

\* The sum of a list of complex numbers.
RECURSIVE SumOver(_)
SumOver(list) ==
    IF list = << >> THEN CZero ELSE CAdd(Head(list), SumOver(Tail(list)))

\* The entry (a, c) of the matrix in which every branch is the untransformed
\* pi-model: y + ysh on the diagonal at both ends, -y off the diagonal in
\* both directions, and every shunt g + jb on the diagonal at its bus.
PiEntry(a, c) ==
    LET ofBranch(br) ==
            IF a = c
            THEN IF a \in { br.i, br.j } THEN CAdd(BranchY(br), BranchYsh(br)) ELSE CZero
            ELSE IF { a, c } = { br.i, br.j } THEN CNeg(BranchY(br)) ELSE CZero
        ofShunt(sh) == IF a = c /\ sh.k = a THEN Cx(sh.g, sh.b, 1) ELSE CZero
    IN  CAdd(SumOver([p \in DOMAIN network.branches |-> ofBranch(network.branches[p])]),
             SumOver([p \in DOMAIN network.shunts |-> ofShunt(network.shunts[p])]))

AllUnity == \A p \in DOMAIN network.branches : Unity(network.branches[p])

\* C14: when every branch has tap = 1 and shift_deg = 0, a matrix returned by
\* build_ybus is symmetric and is the sum of the untransformed pi-models of
\* the branches and of the shunts.
C14_UnityTapSymmetric ==
    AllUnity =>
        \A c \in DOMAIN ybus :
            \A a, b \in 0 .. nbus(network) - 1 :
                /\ ybus[c][<< a, b >>] = ybus[c][<< b, a >>]
                /\ ybus[c][<< a, b >>] = PiEntry(a, b)

\* A matrix returned for two parallel unity branches given in opposite
\* directions, with line charging, and shunts.
C14_Witness ==
    /\ AllUnity
    /\ Len(ybus) >= 1
    /\ Len(network.branches) = 2
    /\ network.branches[1].i = network.branches[2].j
    /\ network.branches[1].j = network.branches[2].i
    /\ network.branches[1].b = 1
    /\ network.branches[1].r = 1
    /\ Len(network.shunts) = 2

\* C15: two calls of build_ybus in succession on the same Network return
\* matrices equal entry for entry, and no step of build_ybus changes the
\* Network.
C15_Pure ==
    /\ [](Len(ybus) = 2 => ybus[1] = ybus[2])
    /\ [][network' = network]_vars

\* The second call has returned a matrix with non-zero entries.
C15_Witness ==
    /\ Len(ybus) = 2
    /\ \E e \in DOMAIN ybus[2] : ~IsZero(ybus[2][e])
    /\ Len(network.branches) = 2

\* A complex value with finite real and imaginary parts.
Finite(c) == c.den # 0

AllFinite(m) == \A e \in DOMAIN m : Finite(m[e])

\* The branch is one that Branch.__init__ returns for its own field values.
Validated(br) == br \in BranchInit(br.i, br.j, br.r, br.x, br.b, br.tap, br.shift_deg)

AllValidated == \A p \in DOMAIN network.branches : Validated(network.branches[p])

\* No division of build_ybus has a zero divisor: z # 0 and t # 0.
DivisorsNonZero ==
    \A p \in DOMAIN network.branches :
        /\ ~IsZero(BranchZ(network.branches[p]))
        /\ ~IsZero(BranchT(network.branches[p]))

\* build_ybus has not raised ZeroDivisionError, and every entry of the matrix
\* under construction and of every returned matrix is finite.
DivisionsDefined ==
    /\ err # "ZeroDivisionError"
    /\ Y # Unbound => AllFinite(Y)
    /\ \A c \in DOMAIN ybus : AllFinite(ybus[c])

\* C21: no Branch accepted by Branch.__init__ has r = 0 and x = 0 together or
\* tap = 0, so build_ybus stamps every accepted Branch without a division by
\* zero and every Ybus entry is finite.
C21_NoDivisionByZero == AllValidated => DivisionsDefined

\* C21, its statement about the constructor: a Branch that Branch.__init__ has
\* returned has a non-zero series impedance and a non-zero tap (violated).
C21_AcceptedNonZero ==
    \A br \in branch : ~(br.r = 0 /\ br.x = 0) /\ br.tap # 0

\* C21 for the zero series impedance alone: an accepted Branch with a
\* non-zero tap never makes build_ybus raise ZeroDivisionError (violated).
C21_NoZeroDivisionError ==
    (AllValidated /\ \A p \in DOMAIN network.branches : network.branches[p].tap # 0)
        => err # "ZeroDivisionError"

\* C21 for the zero tap alone: an accepted Branch with a non-zero series
\* impedance never leaves a non-finite entry (violated).
C21_FiniteEntries ==
    (AllValidated /\ \A p \in DOMAIN network.branches :
                        ~IsZero(BranchZ(network.branches[p])))
        => \A c \in DOMAIN ybus : AllFinite(ybus[c])

\* What the code does give: when no divisor is zero, no division fails.
C21_DefinedOnNonZero == DivisorsNonZero => DivisionsDefined

\* A zero divisor always shows: the call raises or returns a non-finite entry.
C21_ZeroDivisorShows ==
    (~DivisorsNonZero /\ pc = "ybus_idle" /\ Len(ybus) >= 1)
        => \E c \in DOMAIN ybus : ~AllFinite(ybus[c])

-----------------------------------------------------------------------------
(* Solves compared with each other: the same network equations for every   *)
(* invocation.  A solve first runs alone with verbose = false, then alone   *)
(* with verbose = true, then two invocations A (verbose) and B (quiet) of   *)
(* solve run on the same Network, the scheduler switching between them      *)
(* between iterations.  The variables of the solve hold the locals of the   *)
(* invocation that is running and peer those of the suspended one.          *)

\* The injections V * conj(Y V) are a function of the voltages, and the
\* outcome of np.linalg.solve a function of the state it is called in: the
\* members of Oracles are such functions.
PairSeq == << << 0, -1 >>, << 0, 0 >>, << 0, 1 >>, << 0, 2 >>, << 1, 0 >> >>

Oracles == [a : 0 .. 4, c : 0 .. 2]

\* Lines 85-89: (P[k], Q[k]) for the voltages vm, va.
OracleS(o, vm, va, k) == PairSeq[((o.a + k + vm[k] + 3 * va[k]) % 5) + 1]

RECURSIVE SumOf(_, _)
SumOf(vec, ks) ==
    IF ks = {} THEN 0
    ELSE LET k == CHOOSE x \in ks : TRUE IN vec[k] + SumOf(vec, ks \ {k})

\* Line 180: {} when the solve raises LinAlgError, else {the step}.
OracleStep(o, va) ==
    LET m == (o.c + SumOf(va, DOMAIN va)) % 3
    IN  IF m = 0 THEN {} ELSE IF m = 1 THEN {1} ELSE {-1}

\* The numbers a step of solve computes are the ones the equations give.
SameEquations ==
    /\ (pc = "loop" /\ pc' = "enforce") =>
          /\ P' = [k \in Buses |-> OracleS(oracle, Vm, Va, k)[1]]
          /\ Q' = [k \in Buses |-> OracleS(oracle, Vm, Va, k)[2]]
    /\ pc = "newton" =>
          IF OracleStep(oracle, Va) = {} THEN pc' = "raising"
          ELSE /\ pc' = "loop"
               /\ \A d \in OracleStep(oracle, Va) : Va' = AddStep(Va, p_rows, d)

\* The LoadFlow object and the locals of the running invocation.
Frame ==
    [lf |-> lf, pc |-> pc, it |-> it, slack |-> slack, pv |-> pv, pq |-> pq,
     Vm |-> Vm, Va |-> Va, P_spec |-> P_spec, Q_spec |-> Q_spec,
     PV_active |-> PV_active, PV_conv |-> PV_conv, P |-> P, Q |-> Q,
     p_rows |-> p_rows, q_rows |-> q_rows, result |-> result, err |-> err,
     updates |-> updates, lastReimposed |-> lastReimposed,
     printed |-> printed, setsLog |-> setsLog]

\* An invocation of self.solve that has not taken a step.
FreshFrame(self) ==
    [lf |-> self, pc |-> "start", it |-> -1, slack |-> -1, pv |-> << >>, pq |-> << >>,
     Vm |-> Unbound, Va |-> Unbound, P_spec |-> Unbound, Q_spec |-> Unbound,
     PV_active |-> {}, PV_conv |-> {}, P |-> Unbound, Q |-> Unbound,
     p_rows |-> << >>, q_rows |-> << >>, result |-> {}, err |-> "",
     updates |-> 0, lastReimposed |-> {}, printed |-> 0, setsLog |-> << >>]

\* Invocations that keep PV_active and PV_conv in sets they share.
ResumeSharingSets(f) ==
    /\ lf' = f.lf /\ pc' = f.pc /\ it' = f.it /\ slack' = f.slack
    /\ pv' = f.pv /\ pq' = f.pq /\ Vm' = f.Vm /\ Va' = f.Va
    /\ P_spec' = f.P_spec /\ Q_spec' = f.Q_spec
    /\ PV_active' = PV_active /\ PV_conv' = PV_conv
    /\ P' = f.P /\ Q' = f.Q /\ p_rows' = f.p_rows /\ q_rows' = f.q_rows
    /\ result' = f.result /\ err' = f.err /\ updates' = f.updates
    /\ lastReimposed' = f.lastReimposed
    /\ printed' = f.printed /\ setsLog' = f.setsLog

\* Lines 69-82 bind fresh objects to the locals of each call, so the locals
\* of the resumed invocation f are its own.
Resume(f) ==
    /\ lf' = f.lf /\ pc' = f.pc /\ it' = f.it /\ slack' = f.slack
    /\ pv' = f.pv /\ pq' = f.pq /\ Vm' = f.Vm /\ Va' = f.Va
    /\ P_spec' = f.P_spec /\ Q_spec' = f.Q_spec
    /\ PV_active' = f.PV_active /\ PV_conv' = f.PV_conv
    /\ P' = f.P /\ Q' = f.Q /\ p_rows' = f.p_rows /\ q_rows' = f.q_rows
    /\ result' = f.result /\ err' = f.err /\ updates' = f.updates
    /\ lastReimposed' = f.lastReimposed
    /\ printed' = f.printed /\ setsLog' = f.setsLog

\* What a caller and an observer of the sets see of an invocation f.
OutcomeOf(f) == [result |-> f.result, err |-> f.err, sets |-> f.setsLog]

InitAlone ==
    /\ network \in Networks
    /\ oracle \in Oracles
    /\ lf \in { LoadFlowInit(t, m, FALSE) : t \in TolValues, m \in MaxIterValues }
    /\ pc = "start"
    /\ it = -1
    /\ slack = -1
    /\ pv = << >>
    /\ pq = << >>
    /\ Vm = Unbound
    /\ Va = Unbound
    /\ P_spec = Unbound
    /\ Q_spec = Unbound
    /\ PV_active = {}
    /\ PV_conv = {}
    /\ P = Unbound
    /\ Q = Unbound
    /\ p_rows = << >>
    /\ q_rows = << >>
    /\ result = {}
    /\ err = ""
    /\ updates = 0
    /\ lastReimposed = {}
    /\ printed = 0
    /\ setsLog = << >>
    /\ who = "alone"
    /\ peer = << >>
    /\ ref = << >>
    /\ args = << >>
    /\ branch = {}
    /\ Y = Unbound
    /\ pos = 0
    /\ ybus = << >>

\* The outcome of the solve that ran alone is kept under its verbose flag.
Kept == [v \in DOMAIN ref \cup { lf.verbose } |->
            IF v = lf.verbose THEN OutcomeOf(Frame) ELSE ref[v]]

\* The quiet solve that ran alone has ended: the verbose one runs alone.
AloneAgain ==
    /\ who = "alone"
    /\ Terminal
    /\ ~lf.verbose
    /\ ref' = Kept
    /\ Resume(FreshFrame([lf EXCEPT !.verbose = TRUE]))
    /\ UNCHANGED << network, args, branch, Y, pos, ybus, oracle, who, peer >>

\* The verbose solve that ran alone has ended.
AloneOver ==
    /\ who = "alone"
    /\ Terminal
    /\ lf.verbose
    /\ ref' = Kept
    /\ who' = "over"
    /\ UNCHANGED << network, lf, pc, it, slack, pv, pq, Vm, Va, P_spec, Q_spec,
                    PV_active, PV_conv, P, Q, p_rows, q_rows, result, err,
                    updates, lastReimposed, printed, setsLog,
                    args, branch, Y, pos, ybus, oracle, peer >>

\* Invocation A (verbose) is called, invocation B (quiet) waits to be
\* scheduled.
CallBoth ==
    /\ who = "over"
    /\ Resume(FreshFrame(lf))
    /\ peer' = FreshFrame([lf EXCEPT !.verbose = FALSE])
    /\ who' = "A"
    /\ UNCHANGED << network, args, branch, Y, pos, ybus, oracle, ref >>

\* The scheduler suspends the running invocation, which is between two
\* iterations or has ended, and resumes the other.
Switch ==
    /\ who \in { "A", "B" }
    /\ pc \in { "start", "loop", "done", "error" }
    /\ ~(Terminal /\ peer.pc \in { "done", "error" })
    /\ peer' = Frame
    /\ Resume(peer)
    /\ who' = IF who = "A" THEN "B" ELSE "A"
    /\ UNCHANGED << network, args, branch, Y, pos, ybus, oracle, ref >>

\* A step of the running invocation, with the numbers the equations give.
SolveStep == Next /\ SameEquations

NextAlone ==
    \/ SolveStep
    \/ AloneAgain
    \/ AloneOver

SpecAlone == InitAlone /\ [][NextAlone]_vars

NextTwo ==
    \/ SolveStep
    \/ AloneAgain
    \/ AloneOver
    \/ CallBoth
    \/ Switch

SpecTwo == InitAlone /\ [][NextTwo]_vars

\* An invocation f has ended with what the solve with the same LoadFlow
\* returned or raised when it ran alone.
AsAlone(f) ==
    f.pc \in { "done", "error" } =>
        /\ f.result = ref[f.lf.verbose].result
        /\ f.err = ref[f.lf.verbose].err

\* C12: two invocations of solve on the same Network, interleaved iteration
\* by iteration in any order, share no mutable state: a step of the running
\* invocation changes neither the locals of the suspended one nor the Network
\* nor a LoadFlow object, and each invocation ends with exactly the result (or
\* error) of the solve run alone.
C12_Independent ==
    /\ [](who \in { "A", "B" } => (AsAlone(Frame) /\ AsAlone(peer)))
    /\ [][(who \in { "A", "B" } /\ who' = who) =>
             (peer' = peer /\ network' = network /\ lf' = lf)]_vars

\* Invocation A has converged after a conversion and an update while
\* invocation B is suspended after its first iteration, in which it converted
\* the bus too: the iterations of the two were interleaved.
C12_Witness ==
    /\ who = "A"
    /\ pc = "done"
    /\ PV_conv # {}
    /\ \E r \in result : r.converged /\ r.iterations >= 1
    /\ peer.pc = "loop"
    /\ peer.updates = 1
    /\ peer.PV_conv # {}

\* C13: the solve with verbose = true and the solve with verbose = false go
\* through the same sequence of PV_active / PV_conv sets and end with the same
\* result or the same error; a quiet solve prints nothing.
C13_VerboseOnlyPrints ==
    /\ DOMAIN ref = BOOLEAN => ref[TRUE] = ref[FALSE]
    /\ ~lf.verbose => printed = 0

\* Both solves have run alone, and the verbose one converged in a later
\* iteration than the one in which it converted a bus.
C13_Witness ==
    /\ DOMAIN ref = BOOLEAN
    /\ \E r \in ref[TRUE].result : r.converged /\ r.iterations >= 1
    /\ Len(ref[TRUE].sets) >= 2
    /\ ref[TRUE].sets[1][2] # {}

\* The injections the equations give for the voltages vm, va.
InjectionsP(vm, va) == [k \in DOMAIN vm |-> OracleS(oracle, vm, va, k)[1]]
InjectionsQ(vm, va) == [k \in DOMAIN vm |-> OracleS(oracle, vm, va, k)[2]]

\* C19: in every returned result, converged or not, P and Q are the
\* injections V * conj(Y V) of the Vm and Va of the same record.
C19_PowersOfReturnedVoltages ==
    \A r \in result :
        /\ r.P = InjectionsP(r.Vm, r.Va)
        /\ r.Q = InjectionsQ(r.Vm, r.Va)

\* C19 for converged results only.
C19_ConvergedPowers ==
    \A r \in result :
        r.converged => (r.P = InjectionsP(r.Vm, r.Va) /\ r.Q = InjectionsQ(r.Vm, r.Va))

\* The voltages of the record r meet the tolerance: their injections violate
\* no limit of an active PV bus and leave a maximum mismatch below tol.
EndsBelowTol(r) ==
    LET qv == InjectionsQ(r.Vm, r.Va)
        m == Mismatch(P_spec, Q_spec, InjectionsP(r.Vm, r.Va), qv, PRowsNow, QRowsNow)
    IN  /\ Converted(network, PV_active, qv) = {}
        /\ ~AssertFails(network, PV_active, qv)
        /\ m # << >>
        /\ BelowTol(m, lf.tol)

\* C20: for max_iter >= 1, converged = true comes with iterations in
\* 0 .. max_iter - 1, converged = false with iterations = max_iter, and a solve
\* whose final state has a maximum mismatch below tol is reported converged.
C20_FinalStateChecked ==
    lf.max_iter >= 1 =>
        \A r \in result :
            /\ r.converged => r.iterations \in 0 .. lf.max_iter - 1
            /\ ~r.converged => r.iterations = lf.max_iter
            /\ EndsBelowTol(r) => r.converged

\* C20 without its last part.
C20_IterationsAndFlag ==
    lf.max_iter >= 1 =>
        \A r \in result :
            /\ r.converged => r.iterations \in 0 .. lf.max_iter - 1
            /\ ~r.converged => r.iterations = lf.max_iter

\* Inputs that no other claim's defect touches: one slack bus, a bus list
\* ordered by idx, a positive tolerance and at least one iteration.
WellFormed ==
    /\ NumSlack(network) = 1
    /\ IdxOrdered(network)
    /\ lf.tol > 0
    /\ lf.max_iter >= 1

\* C19 and C20 on such inputs (violated as well).
C19_OnWellFormed == WellFormed => C19_PowersOfReturnedVoltages
C20_OnWellFormed == WellFormed => C20_FinalStateChecked

====
